---- MODULE Spec2Model ----
(***************************************************************************)
(* A model of picross_solver.py: the PicrossBoard class, its line          *)
(* enumerator (get_numsposs), line intersector (poss_intersection), the    *)
(* two initial passes (initial_possibilities), the two pruning passes      *)
(* (ruleout_rows, ruleout_cols) and the propagation loop (solve).          *)
(*                                                                         *)
(* A pattern is a sequence over {"0","1"} (the characters of the Python    *)
(* strings); a cell is "0", "1" or None.  Rows are described by verlist    *)
(* and have length width; columns are described by horlist and have       *)
(* length height.                                                          *)
(***************************************************************************)
EXTENDS Integers, Sequences, FiniteSets, TLC

\* Bounds of the family of puzzles explored: the number of lines of a puzzle
\* (height + width) and by how much a hint may be too long for its line.
MaxLines == 5
MaxExcess == 1
\* Bounds of the direct calls of the enumerator.
EnumMaxLen == 6
EnumMaxBlock == 3
EnumMaxBlocks == 3
\* Bounds of the direct calls of the intersector: pattern length and set size.
IntMaxLen == 3
IntMaxCard == 3

VARIABLES
    horlist,    \* self.horlist: one hint per column
    verlist,    \* self.verlist: one hint per row
    board,      \* self.board: board[y][x], a cell
    verposs,    \* self.verposs: candidate sets of the rows built so far
    horposs,    \* self.horposs: candidate sets of the columns built so far
    pc,         \* position of solve()
    idx,        \* index of the line the running for-loop is at
    stuckcheck, \* the Unknown count taken by the while test
    cycles,     \* number of iterations of the while loop started
    result,     \* what solve() returned or raised
    call_args,  \* arguments of a direct call of get_numsposs
    call_ret,   \* value returned by that call
    cycle_start \* the board as the while test of the running cycle saw it

vars == <<horlist, verlist, board, verposs, horposs, pc, idx, stuckcheck, cycles,
          result, call_args, call_ret, cycle_start>>

None == "None"

height == Len(verlist)
width == Len(horlist)

----------------------------------------------------------------------------
\* Helpers for Python's string and list primitives.

\* c * n : n copies of c, empty when n <= 0
Rep(c, n) == [k \in 1..n |-> c]

RECURSIVE Sum(_)
Sum(nums) == IF nums = <<>> THEN 0 ELSE Head(nums) + Sum(Tail(nums))

\* the n-tuples over S
RECURSIVE SeqsOfLen(_, _)
SeqsOfLen(S, n) ==
    IF n = 0 THEN {<<>>}
    ELSE {<<b>> \o s : b \in S, s \in SeqsOfLen(S, n - 1)}

----------------------------------------------------------------------------
\* format_cell / combine_known_nums

\* A or numsB[i]: "0" and "1" are non-empty strings, hence truthy
\* variant: the intersection overwrites the column
combine_known_nums_overwrite(numsA, numsB) ==
    [k \in 1..Len(numsA) |-> numsB[k]]

\* variant: numsB[i] or A
combine_known_nums_swapped(numsA, numsB) ==
    [k \in 1..Len(numsA) |-> IF numsB[k] # None THEN numsB[k] ELSE numsA[k]]

combine_known_nums(numsA, numsB) ==
    [k \in 1..Len(numsA) |-> IF numsA[k] # None THEN numsA[k] ELSE numsB[k]]

----------------------------------------------------------------------------
\* PicrossBoard.get_numsposs

deg_of_free(nums, remain_len) == 1 + remain_len - Sum(nums) - Len(nums)

\* variant: range(deg_of_free) in place of range(deg_of_free+1)
RECURSIVE get_numsposs_short(_, _)
get_numsposs_short(nums, remain_len) ==
    IF nums = <<>> THEN {<<>>}
    ELSE IF nums = <<0>> THEN {Rep("0", remain_len)}
    ELSE UNION {
        LET string == Rep("0", i) \o Rep("1", nums[1]) IN
        IF Len(nums) > 1
        THEN {string \o <<"0">> \o end :
                 end \in get_numsposs_short(Tail(nums), remain_len - (Len(string) + 1))}
        ELSE {string \o Rep("0", remain_len - Len(string))}
        : i \in 0..(deg_of_free(nums, remain_len) - 1)}

\* variant: the separator after a block is not appended
RECURSIVE get_numsposs_nosep(_, _)
get_numsposs_nosep(nums, remain_len) ==
    IF nums = <<>> THEN {<<>>}
    ELSE IF nums = <<0>> THEN {Rep("0", remain_len)}
    ELSE UNION {
        LET string == Rep("0", i) \o Rep("1", nums[1]) IN
        IF Len(nums) > 1
        THEN {string \o end :
                 end \in get_numsposs_nosep(Tail(nums), remain_len - Len(string))}
        ELSE {string \o Rep("0", remain_len - Len(string))}
        : i \in 0..deg_of_free(nums, remain_len)}

RECURSIVE get_numsposs(_, _)
get_numsposs(nums, remain_len) ==
    IF nums = <<>> THEN {<<>>}
    ELSE IF nums = <<0>> THEN {Rep("0", remain_len)}
    ELSE UNION {
        LET string == Rep("0", i) \o Rep("1", nums[1]) IN
        IF Len(nums) > 1
        THEN {string \o <<"0">> \o end :
                 end \in get_numsposs(Tail(nums), remain_len - (Len(string) + 1))}
        ELSE {string \o Rep("0", remain_len - Len(string))}
        : i \in 0..deg_of_free(nums, remain_len)}

----------------------------------------------------------------------------
\* PicrossBoard.poss_intersection; first is the element the iteration of the
\* set visits first (line_poss[0] of the tuple).

\* variant: the first element alone decides
poss_intersection_first(line_poss, first) == first

\* variant: a position is unknown only when every other element differs there
poss_intersection_alldiffer(line_poss, first) ==
    IF Cardinality(line_poss) = 1 THEN first
    ELSE [k \in 1..Len(first) |->
             IF \A poss \in line_poss \ {first} : poss[k] # first[k]
             THEN None ELSE first[k]]

poss_intersection(line_poss, first) ==
    IF Cardinality(line_poss) = 1 THEN first
    ELSE [k \in 1..Len(first) |->
             IF \E poss \in line_poss \ {first} : poss[k] # first[k]
             THEN None ELSE first[k]]

----------------------------------------------------------------------------
\* Board access

Row(b, y) == b[y]
Col(b, x) == [y \in 1..Len(b) |-> b[y][x]]
SetRow(b, y, line) == [b EXCEPT ![y] = line]
SetCol(b, x, line) == [y \in 1..Len(b) |-> [b[y] EXCEPT ![x] = line[y]]]

\* PicrossBoard.remaining_squares
remaining_squares(b) ==
    Cardinality({c \in (1..Len(b)) \X (1..width) : b[c[1]][c[2]] = None})

----------------------------------------------------------------------------
\* The pruning of one line (the body of the for-loops of ruleout_rows and
\* ruleout_cols): position by position, every candidate that disagrees with
\* a known cell is removed from the set.

\* variant: the last position of the line is not looked at
RECURSIVE ruleout_from_butlast(_, _, _)
ruleout_from_butlast(possible, nums, k) ==
    IF k >= Len(nums) THEN possible
    ELSE IF nums[k] = None THEN ruleout_from_butlast(possible, nums, k + 1)
    ELSE ruleout_from_butlast({poss \in possible : poss[k] = nums[k]}, nums, k + 1)

\* variant: removing from the set while iterating it, so that after a
\* removal the rest of the candidates is not looked at for this position
RECURSIVE ruleout_from_once(_, _, _)
ruleout_from_once(possible, nums, k) ==
    IF k > Len(nums) THEN possible
    ELSE IF nums[k] = None THEN ruleout_from_once(possible, nums, k + 1)
    ELSE LET wrong == {poss \in possible : poss[k] # nums[k]} IN
         IF wrong = {} THEN ruleout_from_once(possible, nums, k + 1)
         ELSE ruleout_from_once(possible \ {CHOOSE poss \in wrong : TRUE}, nums, k + 1)

RECURSIVE ruleout_from(_, _, _)
ruleout_from(possible, nums, k) ==
    IF k > Len(nums) THEN possible
    ELSE IF nums[k] = None THEN ruleout_from(possible, nums, k + 1)
    ELSE ruleout_from({poss \in possible : poss[k] = nums[k]}, nums, k + 1)

\* variant: a line without Unknown cell becomes the only candidate
ruleout_possible_known(possible, nums) ==
    IF Cardinality(possible) = 1 THEN possible
    ELSE IF \A k \in 1..Len(nums) : nums[k] # None THEN {nums}
    ELSE ruleout_from(possible, nums, 1)

ruleout_possible(possible, nums) ==
    IF Cardinality(possible) = 1 THEN possible
    ELSE ruleout_from(possible, nums, 1)

\* variant: the single remaining candidate is not written to the board
ruleout_line_nofill(possible, nums) == nums

\* variant: len(possible) >= 1 in place of == 1 in the test before the write
ruleout_line_eager(possible, nums) ==
    LET kept == ruleout_possible(possible, nums) IN
    IF kept # {} THEN CHOOSE poss \in kept : TRUE ELSE nums

ruleout_line(possible, nums) ==
    LET kept == ruleout_possible(possible, nums) IN
    IF Cardinality(kept) = 1 THEN CHOOSE poss \in kept : TRUE ELSE nums

\* One iteration of the for-loop of ruleout_rows, on row y of board b with
\* the row candidate sets vp: the board and the sets after it.
\* variant: nums = self.board[y-1,:], the row before (index -1 is the last)
ruleout_rows_step_prev(b, vp, y) ==
    LET prev == IF y = 1 THEN Len(b) ELSE y - 1 IN
    [board |-> SetRow(b, y, ruleout_line(vp[y], Row(b, prev))),
     poss |-> [vp EXCEPT ![y] = ruleout_possible(vp[y], Row(b, prev))]]

ruleout_rows_step(b, vp, y) ==
    [board |-> SetRow(b, y, ruleout_line(vp[y], Row(b, y))),
     poss |-> [vp EXCEPT ![y] = ruleout_possible(vp[y], Row(b, y))]]

\* One iteration of the for-loop of ruleout_cols, on column x.
\* variant: line 136 is missing, only an already single candidate is written
ruleout_cols_step_nofill(b, hp, x) ==
    [board |-> IF Cardinality(hp[x]) = 1
               THEN SetCol(b, x, ruleout_line(hp[x], Col(b, x))) ELSE b,
     poss |-> [hp EXCEPT ![x] = ruleout_possible(hp[x], Col(b, x))]]

ruleout_cols_step(b, hp, x) ==
    [board |-> SetCol(b, x, ruleout_line(hp[x], Col(b, x))),
     poss |-> [hp EXCEPT ![x] = ruleout_possible(hp[x], Col(b, x))]]

----------------------------------------------------------------------------
\* Puzzles

\* the parsed hint strings explored for a line of length len: sequences of
\* positive blocks, by freedom
PositiveHints(len) ==
    UNION {SeqsOfLen(1..(len + MaxExcess), n) : n \in 1..((len + MaxExcess + 1) \div 2)}

\* "0" and every hint that fits the line
FeasibleHints(len) ==
    {<<0>>} \cup {nums \in PositiveHints(len) : deg_of_free(nums, len) >= 0}

\* the hints too long for the line by at most MaxExcess
OverlongHints(len) ==
    {nums \in PositiveHints(len) :
        deg_of_free(nums, len) < 0 /\ deg_of_free(nums, len) >= 0 - MaxExcess}

\* the sizes of the boards explored
Sizes == {s \in (1..MaxLines) \X (1..MaxLines) : s[1] + s[2] <= MaxLines}

\* every board of these sizes whose hints all fit; <<horlist, verlist>>
FeasiblePuzzles ==
    UNION {[1..s[2] -> FeasibleHints(s[1])] \X [1..s[1] -> FeasibleHints(s[2])] :
              s \in Sizes}

\* boards of hints "1" but for one line, whose hint is too long
OverlongPuzzles ==
    UNION {
        {<<[x \in 1..s[2] |-> <<1>>], [[y \in 1..s[1] |-> <<1>>] EXCEPT ![k] = nums]>> :
             k \in 1..s[1], nums \in OverlongHints(s[2])}
        \cup
        {<<[[x \in 1..s[2] |-> <<1>>] EXCEPT ![k] = nums], [y \in 1..s[1] |-> <<1>>]>> :
             k \in 1..s[2], nums \in OverlongHints(s[1])}
        : s \in Sizes}

\* the example of the class docstring
ExampleHor == << <<3>>, <<1, 2, 1>>, <<1, 3>> >>
ExampleVer == << <<3>>, <<1>>, <<3>>, <<2>>, <<1>>, <<1>> >>

\* board3 of __main__
Board3Hor == << <<1>>, <<1>> >>
Board3Ver == << <<1>>, <<1>> >>

\* a block longer than its line: PicrossBoard(["5"], ["1"])
LongHor == << <<5>> >>
LongVer == << <<1>> >>

\* a 4x4 puzzle that takes four cycles:
\* PicrossBoard(["2", "1", "3", "2"], ["1", "2", "3", "1 1"])
DeepHor == << <<2>>, <<1>>, <<3>>, <<2>> >>
DeepVer == << <<1>>, <<2>>, <<3>>, <<1, 1>> >>

\* a 2x4 puzzle with a solution on which the propagation stalls:
\* PicrossBoard(["0", "1", "1", "1"], ["1", "2"])
StallHor == << <<0>>, <<1>>, <<1>>, <<1>> >>
StallVer == << <<1>>, <<2>> >>

Puzzles ==
    {<<ExampleHor, ExampleVer>>, <<Board3Hor, Board3Ver>>, <<LongHor, LongVer>>,
     <<DeepHor, DeepVer>>, <<StallHor, StallVer>>}
    \cup FeasiblePuzzles \cup OverlongPuzzles

\* PicrossBoard.__init__
Init ==
    /\ \E p \in Puzzles : horlist = p[1] /\ verlist = p[2]
    /\ board = [y \in 1..Len(verlist) |-> [x \in 1..Len(horlist) |-> None]]
    /\ verposs = <<>>
    /\ horposs = <<>>
    /\ pc = "init_rows"
    /\ idx = 1
    /\ stuckcheck = 0
    /\ cycles = 0
    /\ result = "running"
    /\ call_args = <<>>
    /\ call_ret = <<>>
    /\ cycle_start = <<>>

----------------------------------------------------------------------------
\* initial_possibilities, first loop: one row

initial_possibilities_rows ==
    /\ pc = "init_rows"
    /\ LET line_poss == get_numsposs(verlist[idx], width) IN
       /\ verposs' = Append(verposs, line_poss)
       /\ IF line_poss = {}
          THEN \* tuple(line_poss)[0] raises IndexError
               /\ pc' = "raised"
               /\ result' = "IndexError"
               /\ UNCHANGED <<board, idx>>
          ELSE /\ \E first \in line_poss :
                      board' = SetRow(board, idx, poss_intersection(line_poss, first))
               /\ IF idx < height
                  THEN pc' = pc /\ idx' = idx + 1
                  ELSE pc' = "init_cols" /\ idx' = 1
               /\ UNCHANGED result
    /\ UNCHANGED <<horlist, verlist, horposs, stuckcheck, cycles, call_args, call_ret, cycle_start>>

\* initial_possibilities, second loop: one column
initial_possibilities_cols ==
    /\ pc = "init_cols"
    /\ LET line_poss == get_numsposs(horlist[idx], height) IN
       /\ horposs' = Append(horposs, line_poss)
       /\ IF line_poss = {}
          THEN /\ pc' = "raised"
               /\ result' = "IndexError"
               /\ UNCHANGED <<board, idx>>
          ELSE /\ \E first \in line_poss :
                      board' = SetCol(board, idx,
                                  combine_known_nums(Col(board, idx),
                                                     poss_intersection(line_poss, first)))
               /\ IF idx < width
                  THEN pc' = pc /\ idx' = idx + 1
                  ELSE pc' = "while" /\ idx' = 1
               /\ UNCHANGED result
    /\ UNCHANGED <<horlist, verlist, verposs, stuckcheck, cycles, call_args, call_ret, cycle_start>>

\* solve: the while test with its walrus assignment, and the final return self
solve_while ==
    /\ pc = "while"
    /\ stuckcheck' = remaining_squares(board)
    /\ IF remaining_squares(board) # 0
       THEN pc' = "ruleout_rows" /\ cycles' = cycles + 1 /\ UNCHANGED result
       ELSE pc' = "returned" /\ result' = "self" /\ UNCHANGED cycles
    /\ idx' = 1
    /\ cycle_start' = board
    /\ UNCHANGED <<horlist, verlist, board, verposs, horposs, call_args, call_ret>>

\* ruleout_rows: one row
ruleout_rows ==
    /\ pc = "ruleout_rows"
    /\ verposs' = ruleout_rows_step(board, verposs, idx).poss
    /\ board' = ruleout_rows_step(board, verposs, idx).board
    /\ IF idx < height
       THEN pc' = pc /\ idx' = idx + 1
       ELSE pc' = "ruleout_cols" /\ idx' = 1
    /\ UNCHANGED <<horlist, verlist, horposs, stuckcheck, cycles, result,
                   call_args, call_ret, cycle_start>>

\* ruleout_cols: one column
ruleout_cols ==
    /\ pc = "ruleout_cols"
    /\ horposs' = ruleout_cols_step(board, horposs, idx).poss
    /\ board' = ruleout_cols_step(board, horposs, idx).board
    /\ IF idx < width
       THEN pc' = pc /\ idx' = idx + 1
       ELSE pc' = "stuck" /\ idx' = 1
    /\ UNCHANGED <<horlist, verlist, verposs, stuckcheck, cycles, result,
                   call_args, call_ret, cycle_start>>

\* variant: return self in place of return None
solve_stuck_self ==
    /\ pc = "stuck"
    /\ IF stuckcheck = remaining_squares(board)
       THEN pc' = "returned" /\ result' = "self"
       ELSE pc' = "while" /\ UNCHANGED result
    /\ UNCHANGED <<horlist, verlist, board, verposs, horposs, idx, stuckcheck, cycles,
                   call_args, call_ret, cycle_start>>

\* variant: the test for no progress is missing
solve_stuck_never ==
    /\ pc = "stuck"
    /\ pc' = "while"
    /\ UNCHANGED <<horlist, verlist, board, verposs, horposs, idx, stuckcheck, cycles,
                   result, call_args, call_ret, cycle_start>>

\* solve: if stuckcheck == self.remaining_squares(): return None
solve_stuck ==
    /\ pc = "stuck"
    /\ IF stuckcheck = remaining_squares(board)
       THEN pc' = "returned" /\ result' = "None"
       ELSE pc' = "while" /\ UNCHANGED result
    /\ UNCHANGED <<horlist, verlist, board, verposs, horposs, idx, stuckcheck, cycles,
                   call_args, call_ret, cycle_start>>

Next ==
    \/ initial_possibilities_rows
    \/ initial_possibilities_cols
    \/ solve_while
    \/ ruleout_rows
    \/ ruleout_cols
    \/ solve_stuck

Spec == Init /\ [][Next]_vars

\* solve runs to completion: it is one sequential call
FairSpec == Spec /\ WF_vars(Next)

----------------------------------------------------------------------------
\* Direct calls of get_numsposs(nums, remain_len) on a board whose solve()
\* is not running.

EnumHints ==
    {<<0>>} \cup UNION {SeqsOfLen(1..EnumMaxBlock, n) : n \in 0..EnumMaxBlocks}

EnumInit ==
    /\ horlist = <<>>
    /\ verlist = <<>>
    /\ board = <<>>
    /\ verposs = <<>>
    /\ horposs = <<>>
    /\ pc = "call"
    /\ idx = 1
    /\ stuckcheck = 0
    /\ cycles = 0
    /\ result = "running"
    /\ call_args \in [nums : EnumHints, remain_len : 0..EnumMaxLen]
    /\ call_ret = <<>>
    /\ cycle_start = <<>>

call_get_numsposs ==
    /\ pc = "call"
    /\ call_ret' = get_numsposs(call_args.nums, call_args.remain_len)
    /\ pc' = "called"
    /\ UNCHANGED <<horlist, verlist, board, verposs, horposs, idx, stuckcheck, cycles,
                   result, call_args, cycle_start>>

EnumNext == call_get_numsposs

EnumSpec == EnumInit /\ [][EnumNext]_vars

----------------------------------------------------------------------------
\* Direct calls of poss_intersection(line_poss) on a non-empty set of
\* patterns of one length; first is the element the iteration visits first.

IntSets ==
    UNION {{S \in SUBSET [1..n -> {"0", "1"}] :
               S # {} /\ Cardinality(S) <= IntMaxCard} : n \in 0..IntMaxLen}

IntInit ==
    /\ horlist = <<>>
    /\ verlist = <<>>
    /\ board = <<>>
    /\ verposs = <<>>
    /\ horposs = <<>>
    /\ pc = "call"
    /\ idx = 1
    /\ stuckcheck = 0
    /\ cycles = 0
    /\ result = "running"
    /\ \E S \in IntSets : \E first \in S :
           call_args = [line_poss |-> S, first |-> first]
    /\ call_ret = <<>>
    /\ cycle_start = <<>>

call_poss_intersection ==
    /\ pc = "call"
    /\ call_ret' = poss_intersection(call_args.line_poss, call_args.first)
    /\ pc' = "called"
    /\ UNCHANGED <<horlist, verlist, board, verposs, horposs, idx, stuckcheck, cycles,
                   result, call_args, cycle_start>>

IntNext == call_poss_intersection

IntSpec == IntInit /\ [][IntNext]_vars

----------------------------------------------------------------------------
\* Vocabulary of the properties

IsExample == horlist = ExampleHor /\ verlist = ExampleVer
IsBoard3 == horlist = Board3Hor /\ verlist = Board3Ver

ExampleGrid ==
    << <<"1", "1", "1">>, <<"1", "0", "0">>, <<"1", "1", "1">>,
       <<"0", "1", "1">>, <<"0", "0", "1">>, <<"0", "1", "0">> >>

Terminated == pc \in {"returned", "raised"}
Solved == pc = "returned" /\ remaining_squares(board) = 0
Stalled == pc = "returned" /\ remaining_squares(board) > 0

\* every hint of the puzzle has non-negative freedom for its line
AllFeasible ==
    /\ \A y \in 1..height : deg_of_free(verlist[y], width) >= 0
    /\ \A x \in 1..width : deg_of_free(horlist[x], height) >= 0

\* pattern poss agrees with every known cell of line
Agrees(poss, line) == \A k \in 1..Len(line) : line[k] = None \/ poss[k] = line[k]

RowsAgree == \A y \in 1..Len(verposs) : \A poss \in verposs[y] : Agrees(poss, Row(board, y))
ColsAgree == \A x \in 1..Len(horposs) : \A poss \in horposs[x] : Agrees(poss, Col(board, x))

SomeSetEmpty ==
    \/ \E y \in 1..Len(verposs) : verposs[y] = {}
    \/ \E x \in 1..Len(horposs) : horposs[x] = {}

\* the lengths of the maximal runs of "1" of a pattern, in order
RECURSIVE RunsFrom(_, _, _, _)
RunsFrom(p, k, cur, acc) ==
    IF k > Len(p) THEN (IF cur > 0 THEN Append(acc, cur) ELSE acc)
    ELSE IF p[k] = "1" THEN RunsFrom(p, k + 1, cur + 1, acc)
    ELSE RunsFrom(p, k + 1, 0, IF cur > 0 THEN Append(acc, cur) ELSE acc)

Runs(p) == RunsFrom(p, 1, 0, <<>>)

\* all patterns of length n whose runs are blocks
Satisfying(blocks, n) == {p \in [1..n -> {"0", "1"}] : Runs(p) = blocks}

PositiveBlocks(nums) == nums # <<>> /\ \A k \in 1..Len(nums) : nums[k] > 0

----------------------------------------------------------------------------
\* C1: the puzzle of the class docstring (3 columns of length 6, 6 rows of
\* length 3) ends in Solved, with no Unknown cell, and the final grid is
\* 111 / 100 / 111 / 011 / 001 / 010.
C1_ExampleSolved ==
    (IsExample /\ Terminated) =>
        /\ pc = "returned"
        /\ result = "self"
        /\ remaining_squares(board) = 0
        /\ board = ExampleGrid

C1_Witness == IsExample /\ pc = "returned" /\ cycles >= 1 /\ board = ExampleGrid

\* C2: the 2x2 puzzle with hint "1" on every line ends Stalled after one
\* cycle, all four cells Unknown, and nothing is raised.
C2_Board3Stalls ==
    (IsBoard3 /\ Terminated) =>
        /\ pc = "returned"
        /\ result # "IndexError"
        /\ cycles = 1
        /\ remaining_squares(board) = 4
        /\ \A y \in 1..2 : \A x \in 1..2 : board[y][x] = None

C2_Witness == IsBoard3 /\ Stalled /\ cycles = 1 /\ remaining_squares(board) = 4

\* C3 as stated: whatever the terminal outcome, solve returns the board.
C3_ReturnsBoardAlways == pc = "returned" => result = "self"

\* C3 amended: solve returns the board exactly when no cell is Unknown; when
\* it stalls it returns None, raising nothing.
C3_ReturnsBoardIffSolved ==
    pc = "returned" =>
        /\ result \in {"self", "None"}
        /\ (result = "self") <=> (remaining_squares(board) = 0)
        /\ (result = "None") <=> (remaining_squares(board) > 0 /\ cycles >= 1)

C3_Witness == Stalled /\ result = "None" /\ remaining_squares(board) < height * width

\* C4: no step turns a Filled or Empty cell into Unknown, and the number of
\* Unknown cells never increases from a step to the next.
C4_Monotonic ==
    [][/\ \A y \in 1..height : \A x \in 1..width :
              board[y][x] # None => board'[y][x] # None
       /\ remaining_squares(board') <= remaining_squares(board)]_vars

C4_Witness ==
    /\ pc = "ruleout_cols"
    /\ cycles >= 2
    /\ remaining_squares(board) < stuckcheck
    /\ remaining_squares(board) > 0

\* C5: with feasible hints solve terminates, after at most height * width
\* cycles.
C5_Terminates ==
    /\ AllFeasible => <>(pc = "returned")
    /\ [](AllFeasible => cycles <= height * width)

C5_Witness == AllFeasible /\ pc = "returned" /\ cycles >= 3

\* C6: a candidate set, once built, only shrinks: every step leaves it a
\* subset of what it was.
C6_SetsShrink ==
    [][/\ \A y \in 1..Len(verposs) :
              y \in DOMAIN verposs' /\ verposs'[y] \subseteq verposs[y]
       /\ \A x \in 1..Len(horposs) :
              x \in DOMAIN horposs' /\ horposs'[x] \subseteq horposs[x]]_vars

C6_Witness ==
    /\ pc = "stuck"
    /\ \E y \in 1..height : verposs[y] # get_numsposs(verlist[y], width) /\ verposs[y] # {}
    /\ \E x \in 1..width : horposs[x] # get_numsposs(horlist[x], height) /\ horposs[x] # {}

\* the states the solve is in after a row pass, after a column pass, at the
\* end of initialization and when it has returned
AfterRowPass == pc = "ruleout_cols" /\ idx = 1
AfterColPass == pc = "stuck"
AfterInit == pc = "while" /\ cycles = 0

\* C7 as stated: from the end of initialization on, all candidates of all
\* lines agree with the known cells.
C7_AllAgree ==
    (AfterInit \/ AfterRowPass \/ AfterColPass \/ pc = "returned") =>
        (RowsAgree /\ ColsAgree)

\* C7 amended: after a row pass the candidates of every row agree with the
\* known cells of that row; after a column pass, and from then on until the
\* next row pass starts or the solve returns, the candidates of every column
\* agree with the known cells of that column.
C7_PrunedAxisAgrees ==
    /\ AfterRowPass => RowsAgree
    /\ (AfterColPass \/ (cycles >= 1 /\ pc \in {"while", "returned"})) => ColsAgree

C7_Witness ==
    /\ AfterColPass
    /\ ColsAgree
    /\ ~RowsAgree
    /\ \A y \in 1..height : verposs[y] # {}
    /\ \A x \in 1..width : horposs[x] # {}

\* C8 as stated: a run in which a candidate set became empty ends neither
\* Solved nor Stalled.
C8_EmptySetIsFailure == pc = "returned" => ~SomeSetEmpty

\* C9 as stated: for a hint of negative freedom no candidate set is returned
\* and stored, and what is raised is MalformedHint.
C9_MalformedHintRaised ==
    /\ \A y \in 1..Len(verposs) : deg_of_free(verlist[y], width) >= 0
    /\ \A x \in 1..Len(horposs) : deg_of_free(horlist[x], height) >= 0
    /\ pc = "raised" => result = "MalformedHint"

\* C10: for positive blocks of non-negative freedom get_numsposs returns
\* exactly the patterns of the length whose maximal runs are the blocks.
C10_EnumeratorExact ==
    (/\ pc = "called"
     /\ PositiveBlocks(call_args.nums)
     /\ deg_of_free(call_args.nums, call_args.remain_len) >= 0) =>
        call_ret = Satisfying(call_args.nums, call_args.remain_len)

C10_Witness ==
    /\ pc = "called"
    /\ Len(call_args.nums) >= 2
    /\ PositiveBlocks(call_args.nums)
    /\ deg_of_free(call_args.nums, call_args.remain_len) >= 2
    /\ Cardinality(call_ret) >= 6
    /\ call_ret = Satisfying(call_args.nums, call_args.remain_len)

\* C11 as stated: for the empty block sequence get_numsposs returns exactly
\* the all-Empty line of the length asked for.
C11_EmptyHintAllEmpty ==
    (pc = "called" /\ call_args.nums = <<>>) =>
        call_ret = {Rep("0", call_args.remain_len)}

\* the binomial coefficient
RECURSIVE Binom(_, _)
Binom(n, k) ==
    IF k = 0 THEN 1
    ELSE IF n = 0 THEN 0
    ELSE Binom(n - 1, k - 1) + Binom(n - 1, k)

\* C17: for positive blocks of non-negative freedom get_numsposs returns
\* C(freedom + count, count) patterns, and for the hint [0] exactly one.
C17_EnumeratorCount ==
    pc = "called" =>
        /\ (/\ PositiveBlocks(call_args.nums)
            /\ deg_of_free(call_args.nums, call_args.remain_len) >= 0) =>
               Cardinality(call_ret) =
                   Binom(deg_of_free(call_args.nums, call_args.remain_len)
                            + Len(call_args.nums),
                         Len(call_args.nums))
        /\ call_args.nums = <<0>> => Cardinality(call_ret) = 1

C17_Witness ==
    /\ pc = "called"
    /\ PositiveBlocks(call_args.nums)
    /\ Len(call_args.nums) = 3
    /\ deg_of_free(call_args.nums, call_args.remain_len) = 1
    /\ Cardinality(call_ret) = 4

\* the value all patterns of S have at position k, or None when two differ
CommonAt(S, k) ==
    IF \E p \in S : \E q \in S : p[k] # q[k] THEN None
    ELSE (CHOOSE p \in S : TRUE)[k]

\* the position-wise agreement of a non-empty set of patterns of one length
Common(S) == [k \in 1..Len(CHOOSE p \in S : TRUE) |-> CommonAt(S, k)]

\* C12: poss_intersection of a non-empty set of patterns of one length has
\* that length, holds the common value where all patterns agree and None
\* where two differ, whichever element is visited first; for a set of one
\* pattern it is that pattern, without None.
C12_IntersectorCommon ==
    (pc = "called" /\ "line_poss" \in DOMAIN call_args) =>
        /\ call_ret = Common(call_args.line_poss)
        /\ Cardinality(call_args.line_poss) = 1 =>
               /\ call_ret \in call_args.line_poss
               /\ \A k \in 1..Len(call_ret) : call_ret[k] # None

C12_Witness ==
    /\ pc = "called"
    /\ "line_poss" \in DOMAIN call_args
    /\ Cardinality(call_args.line_poss) = 3
    /\ \E k \in 1..Len(call_ret) : call_ret[k] = None
    /\ \E k \in 1..Len(call_ret) : call_ret[k] = "1"
    /\ \E p \in call_args.line_poss : \E k \in 1..Len(p) : p[k] # call_args.first[k]

\* the runs a hint asks for: the hint [0] asks for none
HintRuns(nums) == IF nums = <<0>> THEN <<>> ELSE nums

\* the grids whose rows 1..y satisfy the hints of these rows
RECURSIVE RowsSatisfying(_)
RowsSatisfying(y) ==
    IF y = 0 THEN {<<>>}
    ELSE {Append(g, r) : g \in RowsSatisfying(y - 1),
                         r \in Satisfying(HintRuns(verlist[y]), width)}

\* the grids that satisfy every row hint and every column hint
Solutions ==
    {g \in RowsSatisfying(height) :
        \A x \in 1..width : Runs(Col(g, x)) = HintRuns(horlist[x])}

HasSolution == Solutions # {}

\* C13 as stated: with feasible hints, a cycle that leaves the Unknown count
\* as the while test found it has changed no cell.
C13_StallMeansNoChange ==
    (AllFeasible /\ pc = "stuck" /\ stuckcheck = remaining_squares(board)) =>
        board = cycle_start

\* C14: a pruning call on a line that held two or more candidates leaves
\* exactly the candidates that agree with every cell of the line known when
\* the call started; if one candidate is left, the line equals it afterwards.
C14_PrunerExact ==
    [][/\ (pc = "ruleout_rows" /\ Cardinality(verposs[idx]) >= 2) =>
              /\ verposs'[idx] =
                     {poss \in verposs[idx] : Agrees(poss, Row(board, idx))}
              /\ Cardinality(verposs'[idx]) = 1 =>
                     \A poss \in verposs'[idx] : Row(board', idx) = poss
       /\ (pc = "ruleout_cols" /\ Cardinality(horposs[idx]) >= 2) =>
              /\ horposs'[idx] =
                     {poss \in horposs[idx] : Agrees(poss, Col(board, idx))}
              /\ Cardinality(horposs'[idx]) = 1 =>
                     \A poss \in horposs'[idx] : Col(board', idx) = poss]_vars

C14_Witness ==
    /\ AfterRowPass
    /\ cycles = 1
    /\ \E y \in 1..height :
          /\ Cardinality(get_numsposs(verlist[y], width)) >= 3
          /\ Cardinality(verposs[y]) = 1
          /\ Row(board, y) \in verposs[y]
          /\ \E x \in 1..width : Row(cycle_start, y)[x] = None

\* the intersections of the full candidate sets of row y and of column x
RowIntersection(y) == Common(get_numsposs(verlist[y], width))
ColIntersection(x) == Common(get_numsposs(horlist[x], height))

\* C15: at the end of initialization a cell holds the value of its row
\* intersection when that is known, else the value of its column
\* intersection; it is Unknown only when both are.
C15_InitMerge ==
    AfterInit =>
        \A y \in 1..height : \A x \in 1..width :
            board[y][x] = IF RowIntersection(y)[x] # None
                          THEN RowIntersection(y)[x]
                          ELSE ColIntersection(x)[y]

C15_Witness ==
    /\ AfterInit
    /\ \E y \in 1..height : \E x \in 1..width :
          /\ RowIntersection(y)[x] = None
          /\ ColIntersection(x)[y] # None
          /\ board[y][x] = ColIntersection(x)[y]
    /\ \E y \in 1..height : \E x \in 1..width :
          /\ RowIntersection(y)[x] # None
          /\ ColIntersection(x)[y] # None
          /\ RowIntersection(y)[x] # ColIntersection(x)[y]
          /\ board[y][x] = RowIntersection(y)[x]
    /\ \E y \in 1..height : \E x \in 1..width : board[y][x] = None

\* the orders in which lines 1..n can be processed
Orders(n) == {o \in [1..n -> 1..n] : \A i \in 1..n : \A j \in 1..n : o[i] = o[j] => i = j}

\* the board and the row sets after the rows were pruned in the order o
RECURSIVE RowsInOrder(_, _, _, _)
RowsInOrder(b, vp, o, k) ==
    IF k > Len(o) THEN [board |-> b, poss |-> vp]
    ELSE LET step == ruleout_rows_step(b, vp, o[k]) IN
         RowsInOrder(step.board, step.poss, o, k + 1)

\* the board and the column sets after the columns were pruned in the order o
RECURSIVE ColsInOrder(_, _, _, _)
ColsInOrder(b, hp, o, k) ==
    IF k > Len(o) THEN [board |-> b, poss |-> hp]
    ELSE LET step == ruleout_cols_step(b, hp, o[k]) IN
         ColsInOrder(step.board, step.poss, o, k + 1)

\* at the start of a half-cycle every order of its lines gives the result of
\* the order of the for-loop
OrderIrrelevant ==
    /\ (pc = "ruleout_rows" /\ idx = 1) =>
           \A o \in Orders(height) :
               RowsInOrder(board, verposs, o, 1)
                   = RowsInOrder(board, verposs, [i \in 1..height |-> i], 1)
    /\ (pc = "ruleout_cols" /\ idx = 1) =>
           \A o \in Orders(width) :
               ColsInOrder(board, horposs, o, 1)
                   = ColsInOrder(board, horposs, [i \in 1..width |-> i], 1)

\* the pruning of a line changes the cells and the set of that line only
OwnLineOnly ==
    /\ pc = "ruleout_rows" =>
           /\ \A y \in 1..height : y # idx =>
                  Row(board', y) = Row(board, y) /\ verposs'[y] = verposs[y]
           /\ horposs' = horposs
    /\ pc = "ruleout_cols" =>
           /\ \A x \in 1..width : x # idx =>
                  Col(board', x) = Col(board, x) /\ horposs'[x] = horposs[x]
           /\ verposs' = verposs

\* C16: within a half-cycle the pruning of a line changes only that line's
\* cells and candidate set, and the board and the sets after the half-cycle
\* are the same for every order in which its lines are processed.
C16_OrderIndependent == [][OwnLineOnly]_vars /\ []OrderIrrelevant

C16_Witness ==
    /\ pc = "ruleout_rows"
    /\ idx = 1
    /\ height >= 3
    /\ Cardinality({y \in 1..height :
           Row(RowsInOrder(board, verposs, [i \in 1..height |-> i], 1).board, y)
               # Row(board, y)}) >= 2

\* C18: on a puzzle that has a solution, in every state every known cell has
\* the value it has in every solution, and the rows and columns of every
\* solution are members of the candidate sets built so far.
C18_Sound ==
    \A g \in Solutions :
        /\ \A y \in 1..height : \A x \in 1..width :
               board[y][x] = None \/ board[y][x] = g[y][x]
        /\ \A y \in 1..Len(verposs) : Row(g, y) \in verposs[y]
        /\ \A x \in 1..Len(horposs) : Col(g, x) \in horposs[x]

C18_Witness ==
    /\ Cardinality(Solutions) >= 2
    /\ Stalled
    /\ cycles >= 2
    /\ \E y \in 1..height : verposs[y] # get_numsposs(verlist[y], width)
    /\ \E y \in 1..height : \E x \in 1..width : board[y][x] # None

\* C19 as stated: with feasible hints, when solve ends Solved every row and
\* every column of the grid satisfies the hint of its line.
C19_SolvedSatisfiesHints ==
    (AllFeasible /\ pc = "returned" /\ result = "self") =>
        /\ \A y \in 1..height : Runs(Row(board, y)) = HintRuns(verlist[y])
        /\ \A x \in 1..width : Runs(Col(board, x)) = HintRuns(horlist[x])

\* the Unknown cells of the board whose line's candidates all agree there
DeducibleCells ==
    {c \in (1..height) \X (1..width) :
        /\ board[c[1]][c[2]] = None
        /\ \/ CommonAt(verposs[c[1]], c[2]) # None
           \/ CommonAt(horposs[c[2]], c[1]) # None}

\* C20 as stated: when solve ends Stalled on a puzzle that has a solution, no
\* Unknown cell has the same value in all remaining candidates of its row or
\* of its column.
C20_StallIsIntersectionFixpoint ==
    (HasSolution /\ Stalled) => DeducibleCells = {}

\* C20 amended: when solve ends Stalled on a puzzle that has a solution, the
\* stall is a fixed point of the pruning: pruning any line again removes no
\* candidate and changes no cell, and every line with an Unknown cell has at
\* least two candidates left.
C20_StallIsPruningFixpoint ==
    (HasSolution /\ Stalled) =>
        /\ \A y \in 1..height :
               /\ ruleout_rows_step(board, verposs, y).board = board
               /\ ruleout_rows_step(board, verposs, y).poss = verposs
               /\ (\E x \in 1..width : board[y][x] = None) =>
                      Cardinality(verposs[y]) >= 2
        /\ \A x \in 1..width :
               /\ ruleout_cols_step(board, horposs, x).board = board
               /\ ruleout_cols_step(board, horposs, x).poss = horposs
               /\ (\E y \in 1..height : board[y][x] = None) =>
                      Cardinality(horposs[x]) >= 2

C20_Witness == HasSolution /\ Stalled /\ DeducibleCells # {}

====
